---- MODULE Spec2Model ----
(***************************************************************************)
(* Task Management API: the in-memory task store (services/task.service),  *)
(* its Joi schemas (models/task.model), the validation middleware and the  *)
(* Express controllers that call the store (controllers/task.controller).  *)
(*                                                                         *)
(* Text values (titles, descriptions, query strings) are sequences of      *)
(* one-character strings.  A JavaScript number is <<n>>, NaN is <<>>.      *)
(* An optional argument is <<v>> when given and <<>> when undefined.       *)
(* Request bodies and query objects are functions whose DOMAIN is the set  *)
(* of keys the caller sent.                                                *)
(***************************************************************************)
EXTENDS Integers, Sequences, FiniteSets, TLC

VARIABLES tasks, clock, issued, res, served

vars == <<tasks, clock, issued, res, served>>

(* ------------------------------ bounds --------------------------------- *)

\* number of ids uuidv4 hands out in a run (so also the most live tasks)
MaxTasks == 3

\* number of requests the server answers in a run
MaxRequests == 4

\* last instant the clock reaches; new Date() reads clock..MaxClock
MaxClock == 1

(* ------------------------- program constants --------------------------- *)

TitleMin == 3

TitleMax == 50

DescMin == 3

DescMax == 255

DefaultPage == 1

DefaultLimit == 10

NotFoundCode == 404

BadRequestCode == 400

CreatedCode == 201

OkCode == 200

NoContentCode == 204

PENDING == "PENDING"

IN_PROGRESS == "IN_PROGRESS"

COMPLETED == "COMPLETED"

TaskStatus == {PENDING, IN_PROGRESS, COMPLETED}

(* --------------------------- JavaScript values ------------------------- *)

undefined == <<>>

Some(v) == <<v>>

NaN == <<>>

Num(n) == <<n>>

IsNaN(x) == x = <<>>

\* x - y and x * y on numbers: NaN is contagious
Minus(x, y) == IF IsNaN(x) \/ IsNaN(y) THEN NaN ELSE Num(x[1] - y[1])

Times(x, y) == IF IsNaN(x) \/ IsNaN(y) THEN NaN ELSE Num(x[1] * y[1])

Max2(a, b) == IF a >= b THEN a ELSE b

Min2(a, b) == IF a <= b THEN a ELSE b

\* String.prototype.toLowerCase on the letters the model uses
LowerChar(c) ==
    CASE c = "B" -> "b"
      [] c = "U" -> "u"
      [] c = "Y" -> "y"
      [] c = "T" -> "t"
      [] OTHER -> c

\* toLowerCase that leaves the letters as they are
toLowerCase_Identity(s) == s

toLowerCase(s) == [i \in 1..Len(s) |-> LowerChar(s[i])]

\* String.prototype.includes
includes(s, sub) ==
    \E i \in 0..(Len(s) - Len(sub)) : SubSeq(s, i + 1, i + Len(sub)) = sub

DigitChars == {"0", "1", "2", "3", "4", "5", "6", "7", "8", "9"}

DigitValue(c) ==
    CASE c = "0" -> 0 [] c = "1" -> 1 [] c = "2" -> 2 [] c = "3" -> 3
      [] c = "4" -> 4 [] c = "5" -> 5 [] c = "6" -> 6 [] c = "7" -> 7
      [] c = "8" -> 8 [] c = "9" -> 9

RECURSIVE ParseDigits(_, _, _)
\* the value of the longest run of digits of s from position i, acc so far
ParseDigits(s, i, acc) ==
    IF i > Len(s) \/ s[i] \notin DigitChars
    THEN acc
    ELSE ParseDigits(s, i + 1, acc * 10 + DigitValue(s[i]))

\* parseInt(s), radix 10: optional sign, then digits up to the first
\* character that is no digit; NaN when there is no digit
parseInt(s) ==
    LET signed == Len(s) > 0 /\ s[1] \in {"-", "+"}
        first  == IF signed THEN 2 ELSE 1
        sign   == IF signed /\ s[1] = "-" THEN -1 ELSE 1
    IN  IF first > Len(s) \/ s[first] \notin DigitChars
        THEN NaN
        ELSE Num(sign * ParseDigits(s, first, 0))

\* ToIntegerOrInfinity of a slice argument, made relative to an array of
\* length len: NaN is 0, a negative index counts from the end
RelIndex(x, len) ==
    LET n == IF IsNaN(x) THEN 0 ELSE x[1]
    IN  IF n < 0 THEN Max2(len + n, 0) ELSE Min2(n, len)

\* Array.prototype.slice(start, end)
slice(arr, start, end) ==
    LET k     == RelIndex(start, Len(arr))
        final == RelIndex(end, Len(arr))
    IN  SubSeq(arr, k + 1, final)

\* tasks.findIndex((task) => task.id === id): 0-based position of the first
\* task with this id, -1 when there is none.  (Array.prototype.filter is
\* SelectSeq.)
findIndex(arr, id) ==
    IF \E i \in 1..Len(arr) : arr[i].id = id
    THEN (CHOOSE i \in 1..Len(arr) :
              arr[i].id = id /\ \A j \in 1..(i - 1) : arr[j].id # id) - 1
    ELSE -1

\* object spread { ...a, ...b }: b's keys win
Spread(a, b) ==
    [k \in DOMAIN a \cup DOMAIN b |-> IF k \in DOMAIN b THEN b[k] ELSE a[k]]

(* ------------------------------ inputs --------------------------------- *)

\* the ids a request can name: issued, not yet issued, or already removed
Ids == 1..MaxTasks

Instants == 0..MaxClock

TitleBuy == <<"B", "u", "y">>

TitleTub == <<"T", "u", "b">>

TitleShort == <<"B", "u">>

DescMilk == <<"m", "l", "k">>

DescReport == <<"r", "p", "t">>

\* an optional key of a body or query: absent, or present with a value of vals
Opt(key, vals) == {<<>>} \cup {key :> v : v \in vals}

\* bodies of POST /tasks: the valid ones, and ones the schema must refuse
\* (a field missing, a title too short, a key the schema does not know)
CreateBodies ==
    {t @@ ("description" :> DescMilk) : t \in Opt("title", {TitleBuy, TitleTub, TitleShort})}
    \cup {[title |-> TitleBuy],
          [title |-> TitleBuy, description |-> DescMilk, status |-> COMPLETED]}

\* bodies of PUT /tasks/:id: every subset of title, description and status,
\* a body for each other status, and bodies the schema must refuse: an
\* unknown status, a title too short, an id (another task's, or one not
\* issued), a createdAt
UpdateBodies ==
    {t @@ d @@ s : t \in Opt("title", {TitleTub}),
                   d \in Opt("description", {DescReport}),
                   s \in Opt("status", {COMPLETED})}
    \cup {[status |-> IN_PROGRESS], [status |-> PENDING]}
    \cup {[status |-> "DONE"], [title |-> TitleShort],
          [status |-> COMPLETED, id |-> 1], [id |-> MaxTasks],
          [createdAt |-> MaxClock]}

\* query strings of GET /tasks
Queries ==
    {<<>>,
     [status |-> COMPLETED],
     [title |-> <<"b", "U">>, limit |-> <<"1">>],
     [page |-> <<"2">>, limit |-> <<"1">>],
     [page |-> <<"-", "1">>, limit |-> <<"1">>],
     [page |-> <<"x">>]}

(* --------------------------- models/task.model ------------------------- *)

Has(o, k) == k \in DOMAIN o

\* Joi.string().min(lo).max(hi)
JoiString(v, lo, hi) == Len(v) >= lo /\ Len(v) <= hi

\* createTaskSchema accepts body: both keys required, no unknown key
createTaskSchema(body) ==
    /\ DOMAIN body \subseteq {"title", "description"}
    /\ Has(body, "title") /\ JoiString(body.title, TitleMin, TitleMax)
    /\ Has(body, "description") /\ JoiString(body.description, DescMin, DescMax)

\* updateTaskSchema with unknown keys let through (Joi's allowUnknown)
updateTaskSchema_AllowUnknown(body) ==
    /\ Has(body, "title") => JoiString(body.title, TitleMin, TitleMax)
    /\ Has(body, "description") => JoiString(body.description, DescMin, DescMax)
    /\ Has(body, "status") => body.status \in TaskStatus
    /\ Cardinality(DOMAIN body) >= 1

\* updateTaskSchema with status any string, without .valid(...)
updateTaskSchema_AnyStatus(body) ==
    /\ DOMAIN body \subseteq {"title", "description", "status"}
    /\ Has(body, "title") => JoiString(body.title, TitleMin, TitleMax)
    /\ Has(body, "description") => JoiString(body.description, DescMin, DescMax)
    /\ Cardinality(DOMAIN body) >= 1

\* updateTaskSchema accepts body: every key optional, no unknown key, at
\* least one key
updateTaskSchema(body) ==
    /\ DOMAIN body \subseteq {"title", "description", "status"}
    /\ Has(body, "title") => JoiString(body.title, TitleMin, TitleMax)
    /\ Has(body, "description") => JoiString(body.description, DescMin, DescMax)
    /\ Has(body, "status") => body.status \in TaskStatus
    /\ Cardinality(DOMAIN body) >= 1

(* -------------------------- services/task.service ---------------------- *)

\* a JavaScript condition on an optional string: undefined and "" are falsy
\* (the status is a TLA+ string, the title a sequence of characters)
TruthyStatus(opt) == opt # undefined /\ opt[1] # ""

TruthyText(opt) == opt # undefined /\ opt[1] # <<>>

\* getAll with startIndex = page * limit: the first page is skipped
getAll_PageOffByOne(ts, status, title, page, limit) ==
    LET StatusIs(task) == task.status = status[1]
        TitleHas(task) == includes(toLowerCase(task.title), toLowerCase(title[1]))
        byStatus   == IF TruthyStatus(status) THEN SelectSeq(ts, StatusIs) ELSE ts
        filtered   == IF TruthyText(title) THEN SelectSeq(byStatus, TitleHas) ELSE byStatus
        startIndex == Times(page, limit)
        endIndex   == Times(Minus(page, Num(-1)), limit)
    IN  [total |-> Len(filtered), page |-> page, limit |-> limit,
         data |-> slice(filtered, startIndex, endIndex)]

getAll(ts, status, title, page, limit) ==
    LET StatusIs(task) == task.status = status[1]
        TitleHas(task) == includes(toLowerCase(task.title), toLowerCase(title[1]))
        byStatus   == IF TruthyStatus(status) THEN SelectSeq(ts, StatusIs) ELSE ts
        filtered   == IF TruthyText(title) THEN SelectSeq(byStatus, TitleHas) ELSE byStatus
        startIndex == Times(Minus(page, Num(1)), limit)
        endIndex   == Times(page, limit)
    IN  [total |-> Len(filtered), page |-> page, limit |-> limit,
         data |-> slice(filtered, startIndex, endIndex)]

\* getById that takes the first task whatever the id
getById_First(ts, id) == IF ts = <<>> THEN undefined ELSE Some(ts[1])

\* tasks.find: <<task>> for the first task with this id, undefined without
getById(ts, id) ==
    LET i == findIndex(ts, id)
    IN  IF i = -1 THEN undefined ELSE Some(ts[i + 1])

\* create(data) with the uuid and the two clock readings it makes
create(ts, data, uuid, now1, now2) ==
    LET newTask == [id |-> uuid, title |-> data.title,
                    description |-> data.description, status |-> PENDING,
                    createdAt |-> now1, updatedAt |-> now2]
    IN  [tasks |-> Append(ts, newTask), result |-> Some(newTask)]

\* update with the spread turned round, { ...data, ...tasks[i] }: the stored
\* fields win over the given ones
update_ExistingWins(ts, id, data, now) ==
    LET taskIndex == findIndex(ts, id)
        merged == Spread(Spread(data, ts[taskIndex + 1]), "updatedAt" :> now)
    IN  IF taskIndex = -1
        THEN [tasks |-> ts, result |-> undefined]
        ELSE [tasks |-> [ts EXCEPT ![taskIndex + 1] = merged],
              result |-> Some(merged)]

\* update that stamps createdAt instead of updatedAt
update_StampsCreatedAt(ts, id, data, now) ==
    LET taskIndex == findIndex(ts, id)
        merged == Spread(Spread(ts[taskIndex + 1], data), "createdAt" :> now)
    IN  IF taskIndex = -1
        THEN [tasks |-> ts, result |-> undefined]
        ELSE [tasks |-> [ts EXCEPT ![taskIndex + 1] = merged],
              result |-> Some(merged)]

\* update without the taskIndex === -1 return: for an id that is not there
\* the merge is written to index -1, which is no element of the array, and
\* the merged object is returned
update_NoGuard(ts, id, data, now) ==
    LET taskIndex == findIndex(ts, id)
        merged == Spread(Spread(ts[taskIndex + 1], data), "updatedAt" :> now)
    IN  IF taskIndex = -1
        THEN [tasks |-> ts, result |-> Some(Spread(data, "updatedAt" :> now))]
        ELSE [tasks |-> [ts EXCEPT ![taskIndex + 1] = merged],
              result |-> Some(merged)]

\* update(id, data) with the clock reading it makes when the task exists
update(ts, id, data, now) ==
    LET taskIndex == findIndex(ts, id)
        merged == Spread(Spread(ts[taskIndex + 1], data), "updatedAt" :> now)
    IN  IF taskIndex = -1
        THEN [tasks |-> ts, result |-> undefined]
        ELSE [tasks |-> [ts EXCEPT ![taskIndex + 1] = merged],
              result |-> Some(merged)]

\* remove with the test turned round: it keeps the task it should drop
remove_KeepsMatch(ts, id) ==
    LET IdIs(task) == task.id = id
        kept == SelectSeq(ts, IdIs)
    IN  [tasks |-> kept, result |-> Len(kept) < Len(ts)]

remove(ts, id) ==
    LET IdIsNot(task) == task.id # id
        kept == SelectSeq(ts, IdIsNot)
    IN  [tasks |-> kept, result |-> Len(kept) < Len(ts)]

\* uuidv4(): an id no earlier call returned.  The program only compares ids
\* for equality, so the ids are numbered in the order they are handed out.
uuidv4(n) == n + 1

(* ---------------------------- utils/errorHandler ----------------------- *)

sendErrorResponse(op, id, statusCode, message) ==
    [op |-> op, id |-> id, code |-> statusCode,
     body |-> [success |-> FALSE, error |-> [message |-> message]]]

(* ----------------------- controllers/task.controller ------------------- *)

Respond(op, id, statusCode, body) ==
    [op |-> op, id |-> id, code |-> statusCode, body |-> body]

createTask(body) ==
    /\ issued < MaxTasks
    /\ \E now1 \in clock..MaxClock : \E now2 \in now1..MaxClock :
         LET data == [title |-> body.title, description |-> body.description]
             r == create(tasks, data, uuidv4(issued), now1, now2)
         IN  /\ tasks' = r.tasks
             /\ clock' = now2
             /\ issued' = issued + 1
             /\ res' = Respond("createTask", 0, CreatedCode, r.result)

getAllTasks(query) ==
    LET status == IF Has(query, "status") THEN Some(query.status) ELSE undefined
        title  == IF Has(query, "title") THEN Some(query.title) ELSE undefined
        page   == IF Has(query, "page") /\ query.page # <<>>
                  THEN parseInt(query.page) ELSE Num(DefaultPage)
        limit  == IF Has(query, "limit") /\ query.limit # <<>>
                  THEN parseInt(query.limit) ELSE Num(DefaultLimit)
    IN  /\ res' = Respond("getAllTasks", 0, OkCode,
                          Some(getAll(tasks, status, title, page, limit)))
        /\ UNCHANGED <<tasks, clock, issued>>

getTaskById(id) ==
    LET task == getById(tasks, id)
    IN  /\ res' = IF task = undefined
                  THEN sendErrorResponse("getTaskById", id, NotFoundCode, "Task not found")
                  ELSE Respond("getTaskById", id, OkCode, task)
        /\ UNCHANGED <<tasks, clock, issued>>

updateTask(id, body) ==
    \/ /\ res' = sendErrorResponse("updateTask", id, NotFoundCode, "Task not found")
       /\ update(tasks, id, body, clock).result = undefined
       /\ tasks' = update(tasks, id, body, clock).tasks
       /\ UNCHANGED <<clock, issued>>
    \/ \E now \in clock..MaxClock :
           LET r == update(tasks, id, body, now)
           IN  /\ clock' = now
               /\ r.result # undefined
               /\ tasks' = r.tasks
               /\ res' = Respond("updateTask", id, OkCode, r.result)
               /\ UNCHANGED issued

deleteTask(id) ==
    LET r == remove(tasks, id)
    IN  /\ tasks' = r.tasks
        /\ res' = IF ~r.result
                  THEN sendErrorResponse("deleteTask", id, NotFoundCode, "Task not found")
                  ELSE Respond("deleteTask", id, NoContentCode, undefined)
        /\ UNCHANGED <<clock, issued>>

(* --------------- middleware/validation and routes/task.routes ---------- *)

\* validate(schema): 400 with the first Joi message when the schema refuses
\* the body, and the store is not touched
validate(op) ==
    /\ res' = Respond(op, 0, BadRequestCode, [message |-> "ValidationError"])
    /\ UNCHANGED <<tasks, clock, issued>>

\* the server takes one more request (served only counts them, so that a
\* run ends after MaxRequests requests)
Accept == served < MaxRequests /\ served' = served + 1

PostTasks ==
    /\ Accept
    /\ \E body \in CreateBodies :
          IF createTaskSchema(body) THEN createTask(body) ELSE validate("createTask")

GetTasks == Accept /\ \E query \in Queries : getAllTasks(query)

GetTask == Accept /\ \E id \in Ids : getTaskById(id)

PutTask ==
    /\ Accept
    /\ \E id \in Ids : \E body \in UpdateBodies :
          IF updateTaskSchema(body) THEN updateTask(id, body) ELSE validate("updateTask")

DeleteTask == Accept /\ \E id \in Ids : deleteTask(id)

Init ==
    /\ tasks = <<>>
    /\ clock = 0
    /\ issued = 0
    /\ res = Respond("listen", 0, 0, undefined)
    /\ served = 0

Next == PostTasks \/ GetTasks \/ GetTask \/ PutTask \/ DeleteTask

Spec == Init /\ [][Next]_vars

(* ------------------------- vocabulary of the claims --------------------- *)

LiveIds == {tasks[i].id : i \in 1..Len(tasks)}

\* the ids of a collection, in collection order
IdsOf(ts) == [i \in 1..Len(ts) |-> ts[i].id]

\* position of the task with this id (the id is live)
IndexOf(ts, id) == CHOOSE i \in 1..Len(ts) : ts[i].id = id

Last(ts) == ts[Len(ts)]

TaskKeys == {"id", "title", "description", "status", "createdAt", "updatedAt"}

\* the bodies the update schema lets through
ValidUpdateBodies == {b \in UpdateBodies : updateTaskSchema(b)}

\* a response of a handler that ran to its success branch
Answered(op, code) == res.op = op /\ res.code = code

(* ------------------------------- C1 ------------------------------------ *)

\* C1 (as claimed): the task a successful POST /tasks returns is the last of
\* the collection, its status is PENDING and its createdAt equals its
\* updatedAt.
C1_CreateStampsEqual ==
    Answered("createTask", CreatedCode) =>
        /\ Last(tasks) = res.body[1]
        /\ res.body[1].status = PENDING
        /\ res.body[1].createdAt = res.body[1].updatedAt

(* ------------------------------- C2 ------------------------------------ *)

IdsUnique ==
    \A i, j \in 1..Len(tasks) : tasks[i].id = tasks[j].id => i = j

\* a step keeps the ids of the tasks that stay, position by position; a
\* create appends the id uuidv4 made; a remove takes one id out
IdStep ==
    \/ IdsOf(tasks') = IdsOf(tasks)
    \/ /\ IdsOf(tasks') = Append(IdsOf(tasks), uuidv4(issued))
       /\ issued' = issued + 1
    \/ \E i \in 1..Len(tasks) :
          IdsOf(tasks') = SubSeq(IdsOf(tasks), 1, i - 1)
                            \o SubSeq(IdsOf(tasks), i + 1, Len(tasks))

\* C2: the ids of the live tasks are pairwise distinct, each is an id the
\* store generated, and no request (a PUT body may carry any fields, id
\* included) changes the id of a task.
C2_IdsUniqueImmutable ==
    /\ [](IdsUnique /\ \A i \in 1..Len(tasks) : tasks[i].id \in 1..issued)
    /\ [][IdStep]_vars

\* two creates, a remove and then a successful update have happened
C2_Witness ==
    /\ issued = 2 /\ Len(tasks) = 1
    /\ Answered("updateTask", OkCode)

(* ------------------------------- C3 ------------------------------------ *)

\* title contains sub, case ignored: some window of title equals sub letter
\* by letter once both are lower-cased
ContainsCI(title, sub) ==
    \E i \in 0..(Len(title) - Len(sub)) :
        \A j \in 1..Len(sub) : LowerChar(title[i + j]) = LowerChar(sub[j])

\* the filter a caller asks for: status and title are optional
Matches(task, status, title) ==
    /\ status # undefined => task.status = status[1]
    /\ title # undefined => ContainsCI(task.title, title[1])

\* the filtered set, in insertion order
FilteredSet(ts, status, title) ==
    LET M(task) == Matches(task, status, title) IN SelectSeq(ts, M)

RECURSIVE ConcatPages(_, _, _, _, _)
\* data of pages from..to of list, one after the other
ConcatPages(ts, status, title, limit, pages) ==
    IF pages = <<>>
    THEN <<>>
    ELSE getAll(ts, status, title, Num(Head(pages)), Num(limit)).data
           \o ConcatPages(ts, status, title, limit, Tail(pages))

CeilDiv(n, d) == (n + d - 1) \div d

\* the filters the laws are tried with: none, a status some task can have,
\* a status no task has; no title, a title in the other case, a title that
\* is in every title, a title that is in none
StatusFilters == {undefined, Some(PENDING), Some(COMPLETED), Some("pending")}

TitleFilters == {undefined, Some(<<"b", "U">>), Some(<<"u">>), Some(<<"y", "b">>)}

Limits == 1..(MaxTasks + 1)

\* GET /tasks has answered a request that gave no page and no limit and
\* whose filter every task passed (so GET /tasks without a query, for one):
\* the laws below are tried on every collection a list request can run on
ListedAll ==
    /\ Answered("getAllTasks", OkCode)
    /\ res.body[1].page = Num(DefaultPage) /\ res.body[1].limit = Num(DefaultLimit)
    /\ res.body[1].total = Len(tasks)

\* C3: on the collection a list request ran on, for every filter and every
\* positive limit, the pages 1..ceil(N/limit) of list, concatenated, are the
\* filtered set in insertion order, and every page reports total = N.
C3_PaginationLaw ==
    ListedAll =>
    \A status \in StatusFilters : \A title \in TitleFilters : \A limit \in Limits :
        LET want  == FilteredSet(tasks, status, title)
            N     == Len(want)
            pages == [p \in 1..CeilDiv(N, limit) |-> p]
        IN  /\ ConcatPages(tasks, status, title, limit, pages) = want
            /\ \A p \in 1..CeilDiv(N, limit) :
                   getAll(tasks, status, title, Num(p), Num(limit)).total = N

\* GET /tasks?page=2&limit=1 has answered with the second of two tasks
C3_Witness ==
    /\ Answered("getAllTasks", OkCode)
    /\ res.body[1].page = Num(2) /\ res.body[1].limit = Num(1)
    /\ res.body[1].total = 2
    /\ res.body[1].data = <<tasks[2]>>

(* ------------------------------- C4 ------------------------------------ *)

\* what update(id, body) may change: the keys of body take body's values,
\* updatedAt is the instant of the call, everything else stays
UpdateFrame(id, body) ==
    LET i == IndexOf(tasks, id)
    IN  /\ Len(tasks') = Len(tasks)
        /\ \A j \in 1..Len(tasks) : j # i => tasks'[j] = tasks[j]
        /\ DOMAIN tasks'[i] = TaskKeys
        /\ \A k \in TaskKeys \ {"updatedAt"} :
               tasks'[i][k] = IF k \in DOMAIN body THEN body[k] ELSE tasks[i][k]
        /\ tasks'[i].updatedAt = clock'
        /\ res'.body = Some(tasks'[i])

\* C4: a PUT on a live task with any subset of title, description and
\* status changes those fields and updatedAt of that task and nothing else.
C4_UpdateFrame ==
    [][(res'.op = "updateTask" /\ res'.code = OkCode) =>
          \A body \in ValidUpdateBodies :
              updateTask(res'.id, body) => UpdateFrame(res'.id, body)]_vars

\* a PUT of only a status has answered: the task is COMPLETED, later than it
\* was created, with the title and description it was created with
C4_Witness ==
    /\ Answered("updateTask", OkCode)
    /\ res.body[1].status = COMPLETED
    /\ res.body[1].title = TitleBuy /\ res.body[1].description = DescMilk
    /\ res.body[1].updatedAt > res.body[1].createdAt
    /\ Len(tasks) = 2

(* ------------------------------- C5 ------------------------------------ *)

\* C5: getById of the id a create returned is the record it returned, and
\* stays so over every step that is not an update or remove of that id;
\* getById of an id no live task holds is not-found, and GET /tasks/:id
\* answers 200 with the task exactly when the id is live.
C5_GetByIdAfterCreate ==
    /\ [](/\ Answered("createTask", CreatedCode) =>
                getById(tasks, res.body[1].id) = res.body
          /\ \A id \in Ids \ LiveIds : getById(tasks, id) = undefined
          /\ res.op = "getTaskById" =>
                IF res.id \in LiveIds
                THEN res.code = OkCode /\ res.body = Some(tasks[IndexOf(tasks, res.id)])
                ELSE res.code = NotFoundCode)
    /\ [][\A id \in LiveIds :
            ~(res'.op \in {"updateTask", "deleteTask"} /\ res'.id = id)
                => getById(tasks', id) = getById(tasks, id)]_vars

\* GET /tasks/:id has found the second task, created after the first was
\* removed
C5_Witness ==
    /\ Answered("getTaskById", OkCode)
    /\ res.id = 2 /\ LiveIds = {2}
    /\ res.body = Some(tasks[1])

(* ------------------------------- C6 ------------------------------------ *)

\* the collection with the task at position i taken out
Without(ts, i) == SubSeq(ts, 1, i - 1) \o SubSeq(ts, i + 1, Len(ts))

\* C6: DELETE of a live id answers 204 (remove returned true), the task is
\* gone, the others stay in their order, and remove of that id now returns
\* false; a DELETE of the same id right after a 204 answers 404 and changes
\* nothing.
C6_RemoveTwice ==
    [][res'.op = "deleteTask" =>
          /\ \A id \in LiveIds : deleteTask(id) =>
                /\ res'.code = NoContentCode
                /\ getById(tasks', id) = undefined
                /\ tasks' = Without(tasks, IndexOf(tasks, id))
                /\ ~remove(tasks', id).result
          /\ (Answered("deleteTask", NoContentCode) /\ deleteTask(res.id)) =>
                res'.code = NotFoundCode /\ tasks' = tasks]_vars

\* the first of two tasks was removed, and a second DELETE of it got 404
C6_Witness ==
    /\ Answered("deleteTask", NotFoundCode)
    /\ res.id = 1 /\ issued = 2 /\ LiveIds = {2}

(* ------------------------------- C7 ------------------------------------ *)

Pages == (-1)..MaxTasks

\* C7: on the collection a list request ran on, for every filter, page and
\* positive limit, every task list returns matches the filter, and for a
\* page >= 1 the data are exactly the tasks of the filtered set at positions
\* (page-1)*limit+1 .. page*limit.
C7_FilterCorrect ==
    ListedAll =>
    \A status \in StatusFilters : \A title \in TitleFilters :
      \A page \in Pages : \A limit \in 1..2 :
        LET r    == getAll(tasks, status, title, Num(page), Num(limit))
            want == FilteredSet(tasks, status, title)
        IN  /\ \A i \in 1..Len(r.data) : Matches(r.data[i], status, title)
            /\ page >= 1 =>
                 r.data = SubSeq(want, (page - 1) * limit + 1,
                                 Min2(page * limit, Len(want)))

\* GET /tasks?title=bU&limit=1 has answered with the one task whose title
\* holds "bu" in another case, out of two tasks
C7_Witness ==
    /\ Answered("getAllTasks", OkCode)
    /\ Len(tasks) = 2 /\ tasks[1].title = TitleTub /\ tasks[2].title = TitleBuy
    /\ res.body[1].total = 1 /\ res.body[1].data = <<tasks[2]>>

(* ------------------------------- C8 ------------------------------------ *)

\* C8 (as claimed): a list response for a page that addresses no element of
\* the filtered set (beyond the last page, zero, negative, or no number)
\* carries no data.
C8_OutOfRangeEmpty ==
    Answered("getAllTasks", OkCode) =>
        LET r == res.body[1]
        IN  (/\ ~IsNaN(r.limit) /\ r.limit[1] >= 1
             /\ \/ IsNaN(r.page)
                \/ r.page[1] <= 0
                \/ (r.page[1] - 1) * r.limit[1] >= r.total)
            => r.data = <<>>

(* ------------------------------- C9 ------------------------------------ *)

StatusValid == \A i \in 1..Len(tasks) : tasks[i].status \in TaskStatus

\* the status of a task that stays differs only after a 200 PUT on that task
\* whose body carried a status
StatusStep ==
    \A i \in 1..Len(tasks) : \A j \in 1..Len(tasks') :
        (tasks'[j].id = tasks[i].id /\ tasks'[j].status # tasks[i].status) =>
            /\ res'.op = "updateTask" /\ res'.code = OkCode /\ res'.id = tasks[i].id
            /\ \E body \in ValidUpdateBodies :
                  /\ Has(body, "status")
                  /\ updateTask(tasks[i].id, body)
                  /\ tasks'[j].status = body.status

\* C9: the status of every live task is PENDING, IN_PROGRESS or COMPLETED,
\* and a status changes only through an update that carried a status.
C9_StatusEnum == []StatusValid /\ [][StatusStep]_vars

\* a PUT has moved the second of two tasks to IN_PROGRESS
C9_Witness ==
    /\ Answered("updateTask", OkCode)
    /\ res.id = 2 /\ Len(tasks) = 2
    /\ tasks[2].status = IN_PROGRESS /\ tasks[1].status = PENDING

(* ------------------------------- C10 ----------------------------------- *)

StampsOrdered ==
    \A i \in 1..Len(tasks) :
        tasks[i].createdAt <= tasks[i].updatedAt /\ tasks[i].updatedAt <= clock

\* createdAt of a task that stays never changes, its updatedAt never goes
\* back, and a 200 PUT on it sets updatedAt to the instant of the call
StampsStep ==
    \A i \in 1..Len(tasks) : \A j \in 1..Len(tasks') :
        tasks'[j].id = tasks[i].id =>
            /\ tasks'[j].createdAt = tasks[i].createdAt
            /\ tasks'[j].updatedAt >= tasks[i].updatedAt
            /\ (res'.op = "updateTask" /\ res'.code = OkCode /\ res'.id = tasks[i].id)
                  => tasks'[j].updatedAt = clock' /\ clock' >= clock

\* C10: every live task has updatedAt >= createdAt; createdAt never changes
\* and, the clock not going back, updatedAt never decreases and is the
\* current time after every successful update.
C10_StampsMonotone == []StampsOrdered /\ [][StampsStep]_vars

\* the only task was created at 0 with both stamps 0 and updated at 1
C10_Witness ==
    /\ Answered("updateTask", OkCode)
    /\ Len(tasks) = 1
    /\ tasks[1].createdAt = 0 /\ tasks[1].updatedAt = 1 /\ clock = 1

(* ------------------------------- C11 ----------------------------------- *)

\* the ids a request can name that no live task has
AbsentIds == Ids \ LiveIds

\* the three store operations on an id that is not there: the not-found
\* result, and the collection they leave is the collection they were given
NotFoundResults ==
    \A id \in AbsentIds :
        /\ getById(tasks, id) = undefined
        /\ \A data \in UpdateBodies : \A now \in Instants :
              update(tasks, id, data, now) = [tasks |-> tasks, result |-> undefined]
        /\ remove(tasks, id) = [tasks |-> tasks, result |-> FALSE]

\* a step in which GET, PUT or DELETE /tasks/:id reached its handler with an
\* id that is not there: the answer is the 404 envelope and nothing the
\* store holds has moved
NotFoundStep ==
    (/\ res'.op \in {"getTaskById", "updateTask", "deleteTask"}
     /\ res'.id \in AbsentIds) =>
        /\ res'.code = NotFoundCode
        /\ res'.body = [success |-> FALSE, error |-> [message |-> "Task not found"]]
        /\ tasks' = tasks
        /\ clock' = clock

\* C11: getById, update and remove with an id that matches no live task give
\* the not-found result (undefined / null / false) and leave the collection
\* as it was (same tasks, same field values, same order); the GET, PUT and
\* DELETE handlers then answer 404 with {success:false, error:{message:"Task
\* not found"}}, never 200 or 204.
C11_NotFound == []NotFoundResults /\ [][NotFoundStep]_vars

\* PUT of an id that is not there was answered 404 while two tasks are stored
C11_Witness ==
    /\ Answered("updateTask", NotFoundCode)
    /\ res.id \in AbsentIds
    /\ Len(tasks) >= 2
    /\ res.body.error.message = "Task not found"

====
